---------------------------- MODULE Spec2Model ----------------------------
(***************************************************************************)
(* A model of the BuildSmart invoice system (src/main.py): the sqlite      *)
(* table "invoices", the handlers that write and read it, and the totals   *)
(* calculator of the invoice form.                                         *)
(*                                                                         *)
(* Text is a sequence of one-token strings (<<" ", "N", "1">>), so that    *)
(* str.strip(), float() and str()/eval() are computed on the text and not  *)
(* assumed.  A REAL money column holds hundredths (an integer): quantities *)
(* and prices are whole numbers and the tax rate a whole percentage, which *)
(* keeps subtotal * (tax_rate / 100) exact.  Besides the whole numbers up  *)
(* to MaxFloat a float is inf, -inf or nan, which float() reads from the   *)
(* words inf, infinity and nan.  A file of OUTPUT_DIR is held as the item  *)
(* rows and the totals lines printed in it.                                *)
(*                                                                         *)
(* The store is a file: a second running instance of the program can       *)
(* change it between the moment a dashboard row or an edit form was        *)
(* filled and the moment its button is pressed.  Handlers therefore take   *)
(* any id that was ever listed (1..seq), and an edit form keeps the        *)
(* invoice number it was opened with.                                      *)
(***************************************************************************)
EXTENDS Integers, Sequences, FiniteSets, TLC

VARIABLES
    columns,   \* the table's columns in SELECT * order; <<>> when no table
    rows,      \* id -> stored record (column name -> value)
    seq,       \* sqlite_sequence: the largest id AUTOINCREMENT ever gave
    files,     \* OUTPUT_DIR: file name -> the document written under it
    form,      \* the open edit form: [open, invoice_number]
    last,      \* the last handler that ran: [op, id, num, outcome]
    deleted,   \* history: the ids a DELETE removed a row for
    rate,      \* history: id -> tax rate of the record's most recent save
    calc,      \* an invoice form's items table: [table, tax, result, shown]
               \* and the items text saved from it and read back: text, back
    listed,    \* the dashboard: [filter, ids], the search box and the table
    writers    \* program instance -> its create in progress on the shared
               \* database file: [pc, number, row, doc, rate, id, raced,
               \* outcome]

vars ==
    <<columns, rows, seq, files, form, last, deleted, rate, calc, listed,
      writers>>

-----------------------------------------------------------------------------
(* Bounds *)

MaxId == 2          \* AUTOINCREMENT ids handed out in one run
MaxTableRows == 2   \* rows of the items table handed to calculate_totals
MaxFloat == 100000  \* the largest finite float; beyond it a result is inf

-----------------------------------------------------------------------------
(* Text *)

Cents == 100

NoCell == <<"<None>">>   \* QTableWidget.item(row, col) is None

RECURSIVE LStrip(_)
LStrip(s) == IF s # <<>> /\ Head(s) = " " THEN LStrip(Tail(s)) ELSE s

RECURSIVE RStrip(_)
RStrip(s) ==
    IF s # <<>> /\ s[Len(s)] = " " THEN RStrip(SubSeq(s, 1, Len(s) - 1)) ELSE s

\* str.strip()
Strip(s) == RStrip(LStrip(s))

DigitChars == <<"0", "1", "2", "3", "4", "5", "6", "7", "8", "9">>

IsDigit(c) == \E i \in 1..10 : DigitChars[i] = c

DigitVal(c) == (CHOOSE i \in 1..10 : DigitChars[i] = c) - 1

RECURSIVE DigitsVal(_)
DigitsVal(s) ==
    IF s = <<>> THEN 0
    ELSE 10 * DigitsVal(SubSeq(s, 1, Len(s) - 1)) + DigitVal(s[Len(s)])

IsDigits(s) == s # <<>> /\ \A i \in 1..Len(s) : IsDigit(s[i])

\* A float is a whole number in -MaxFloat..MaxFloat or one of inf, -inf, nan
Inf == MaxFloat + 1
NegInf == 0 - Inf
NaN == MaxFloat + 2

IsFinite(x) == x >= 0 - MaxFloat /\ x <= MaxFloat

\* a result too large for a float is inf
Overflow(x) == IF x > MaxFloat THEN Inf ELSE IF x < 0 - MaxFloat THEN NegInf ELSE x

\* float * float (x and y: the operands, evaluated once)
FMul(a, b) ==
    CHOOSE r \in {IF x = NaN \/ y = NaN THEN NaN
                  ELSE IF IsFinite(x) /\ IsFinite(y) THEN Overflow(x * y)
                  ELSE IF x = 0 \/ y = 0 THEN NaN
                  ELSE IF (x > 0) = (y > 0) THEN Inf ELSE NegInf
                     : x \in {a}, y \in {b}} : TRUE

\* float + float
FAdd(a, b) ==
    CHOOSE r \in {IF x = NaN \/ y = NaN THEN NaN
                  ELSE IF IsFinite(x) /\ IsFinite(y) THEN Overflow(x + y)
                  ELSE IF IsFinite(x) THEN y
                  ELSE IF IsFinite(y) \/ x = y THEN x
                  ELSE NaN
                     : x \in {a}, y \in {b}} : TRUE

\* float(text): surrounding whitespace is ignored, one sign is allowed, the
\* rest must be digits or one of the words nan, inf, infinity; anything else
\* raises ValueError (ok = FALSE).
ParseFloat(s) ==
    LET t == Strip(s)
        signed == t # <<>> /\ t[1] \in {"-", "+"}
        body == IF signed THEN Tail(t) ELSE t
        neg == signed /\ t[1] = "-"
    IN  IF IsDigits(body)
        THEN [ok |-> TRUE,
              val |-> Overflow(IF neg THEN 0 - DigitsVal(body)
                               ELSE DigitsVal(body))]
        ELSE IF body = <<"nan">> THEN [ok |-> TRUE, val |-> NaN]
        ELSE IF body \in {<<"inf">>, <<"infinity">>}
        THEN [ok |-> TRUE, val |-> IF neg THEN NegInf ELSE Inf]
        ELSE [ok |-> FALSE, val |-> 0]

RECURSIVE Digits(_)
Digits(n) ==
    IF n < 10 THEN <<DigitChars[n + 1]>>
    ELSE Digits(n \div 10) \o <<DigitChars[(n % 10) + 1]>>

\* repr(float): 2.0, -1.0, nan, inf, -inf
FloatRepr(n) ==
    IF n = NaN THEN <<"nan">>
    ELSE IF n = Inf THEN <<"inf">>
    ELSE IF n = NegInf THEN <<"-", "inf">>
    ELSE (IF n < 0 THEN <<"-">> ELSE <<>>)
             \o Digits(IF n < 0 THEN 0 - n ELSE n) \o <<".", "0">>

\* repr((desc, qty, price)); desc holds no quote and no backslash
TupleRepr(it) ==
    <<"(", "'">> \o it[1] \o <<"'", ",", " ">> \o FloatRepr(it[2])
        \o <<",", " ">> \o FloatRepr(it[3]) \o <<")">>

RECURSIVE JoinRepr(_)
JoinRepr(items) ==
    IF items = <<>> THEN <<>>
    ELSE IF Len(items) = 1 THEN TupleRepr(items[1])
    ELSE TupleRepr(items[1]) \o <<",", " ">> \o JoinRepr(Tail(items))

\* str(items), the text stored in the items column
ItemsStr(items) == <<"[">> \o JoinRepr(items) \o <<"]">>


-----------------------------------------------------------------------------
(* eval(text) of a stored items text *)

Tok(s, i) == IF i >= 1 /\ i <= Len(s) THEN s[i] ELSE "<eof>"

RECURSIVE SkipWs(_, _)
SkipWs(s, i) == IF Tok(s, i) = " " THEN SkipWs(s, i + 1) ELSE i

RECURSIVE FindQuote(_, _)
FindQuote(s, i) ==
    IF i > Len(s) THEN 0 ELSE IF s[i] = "'" THEN i ELSE FindQuote(s, i + 1)

RECURSIVE DigitRunEnd(_, _)
DigitRunEnd(s, i) == IF IsDigit(Tok(s, i)) THEN DigitRunEnd(s, i + 1) ELSE i

\* a string literal '...' starting at i
StrLit(s, i) ==
    LET j == FindQuote(s, i + 1)
    IN  IF Tok(s, i) = "'" /\ j > 0
        THEN [ok |-> TRUE, val |-> SubSeq(s, i + 1, j - 1), next |-> j + 1]
        ELSE [ok |-> FALSE, val |-> <<>>, next |-> i]

\* a number literal [-]digits[.digits] starting at i, whole-valued; a word
\* such as nan or inf is a name, which eval does not know (NameError)
NumLit(s, i) ==
    LET neg == Tok(s, i) = "-"
        b == IF neg THEN i + 1 ELSE i
        e == DigitRunEnd(s, b)
        f == IF Tok(s, e) = "." THEN DigitRunEnd(s, e + 1) ELSE e
        whole == \A k \in (e + 1)..(f - 1) : s[k] = "0"
        v == DigitsVal(SubSeq(s, b, e - 1))
    IN  IF e > b /\ whole
        THEN [ok |-> TRUE, val |-> Overflow(IF neg THEN 0 - v ELSE v),
              next |-> f]
        ELSE [ok |-> FALSE, val |-> 0, next |-> i]

\* a tuple literal ('desc', qty, price) starting at i
TupleLit(s, i) ==
    LET d  == StrLit(s, SkipWs(s, i + 1))
        c1 == SkipWs(s, d.next)
        q  == NumLit(s, SkipWs(s, c1 + 1))
        c2 == SkipWs(s, q.next)
        p  == NumLit(s, SkipWs(s, c2 + 1))
        e  == SkipWs(s, p.next)
    IN  IF /\ Tok(s, i) = "("
           /\ d.ok /\ Tok(s, c1) = ","
           /\ q.ok /\ Tok(s, c2) = ","
           /\ p.ok /\ Tok(s, e) = ")"
        THEN [ok |-> TRUE, val |-> <<d.val, q.val, p.val>>, next |-> e + 1]
        ELSE [ok |-> FALSE, val |-> <<>>, next |-> i]

RECURSIVE ListTail(_, _, _)
ListTail(s, i, acc) ==
    LET j == SkipWs(s, i)
        t == TupleLit(s, j)
        k == SkipWs(s, t.next)
    IN  IF Tok(s, j) = "]" THEN [ok |-> TRUE, val |-> acc, next |-> j + 1]
        ELSE IF ~t.ok THEN [ok |-> FALSE, val |-> <<>>, next |-> i]
        ELSE IF Tok(s, k) = "," THEN ListTail(s, k + 1, Append(acc, t.val))
        ELSE IF Tok(s, k) = "]"
             THEN [ok |-> TRUE, val |-> Append(acc, t.val), next |-> k + 1]
        ELSE [ok |-> FALSE, val |-> <<>>, next |-> i]

\* eval(text) where a list of (str, number, number) tuples is expected:
\* ok = FALSE stands for the exception eval or the unpacking raises.
Eval(s) ==
    LET i == SkipWs(s, 1)
        r == ListTail(s, i + 1, <<>>)
    IN  IF Tok(s, i) = "[" /\ r.ok /\ SkipWs(s, r.next) > Len(s)
        THEN [ok |-> TRUE, val |-> r.val]
        ELSE [ok |-> FALSE, val |-> <<>>]

-----------------------------------------------------------------------------
(* InvoiceForm.calculate_totals *)

CellsPresent(row) == row[1] # NoCell /\ row[2] # NoCell /\ row[3] # NoCell

\* the row appended as soon as the quantity parsed
RowKept_qty(row) == CellsPresent(row) /\ ParseFloat(row[2]).ok

\* the row reaches items.append: both float() calls returned
RowKept(row) ==
    CellsPresent(row) /\ ParseFloat(row[2]).ok /\ ParseFloat(row[3]).ok

RowItem(row) == <<row[1], ParseFloat(row[2]).val, ParseFloat(row[3]).val>>

\* the loop over the table rows: [items, subtotal]
RECURSIVE TotalsLoop(_, _)
TotalsLoop(table, acc) ==
    IF table = <<>> THEN acc
    ELSE LET row == Head(table)
             it == RowItem(row)
         IN  IF RowKept(row)
             THEN TotalsLoop(Tail(table),
                      [items |-> Append(acc.items, it),
                       subtotal |-> FAdd(acc.subtotal,
                                         FMul(Cents, FMul(it[2], it[3])))])
             ELSE TotalsLoop(Tail(table), acc)

\* float(self.tax_input.text() or 0), 0 on ValueError
TaxRate(text) ==
    IF text = <<>> THEN 0
    ELSE IF ParseFloat(text).ok THEN ParseFloat(text).val ELSE 0

calculate_totals(table, tax_text) ==
    LET r == TotalsLoop(table, [items |-> <<>>, subtotal |-> 0])
        scaled == FMul(r.subtotal, TaxRate(tax_text))
        tax == IF IsFinite(scaled) THEN scaled \div Cents ELSE scaled
    IN  [items |-> r.items, subtotal |-> r.subtotal, tax |-> tax,
         total |-> FAdd(r.subtotal, tax)]

-----------------------------------------------------------------------------
(* init_db: the table and its columns *)

FreshColumns ==
    <<"id", "invoice_number", "client_name", "client_address",
      "client_number", "description", "items", "subtotal", "tax", "total",
      "email", "company_name", "company_address", "company_contact",
      "date_added", "date">>

AddedColumns == <<"date_added", "date", "client_address", "client_number">>

TextColumns ==
    {"invoice_number", "client_name", "client_address", "client_number",
     "description", "items", "email", "company_name", "company_address",
     "company_contact", "date_added", "date"}

RealColumns == {"subtotal", "tax", "total"}

HasColumn(cols, c) == \E i \in 1..Len(cols) : cols[i] = c

\* the table an older version left: the current columns without `missing`,
\* with the same id and invoice_number declarations
LegacyColumns(missing) ==
    SelectSeq(FreshColumns, LAMBDA c : c \notin missing)

\* the column added whether or not the table has it
AddColumn_always(cols, c) == Append(cols, c)

\* ALTER TABLE invoices ADD COLUMN c; "duplicate column" is swallowed
AddColumn(cols, c) == IF HasColumn(cols, c) THEN cols ELSE Append(cols, c)

RECURSIVE AddColumns(_, _)
AddColumns(cols, todo) ==
    IF todo = <<>> THEN cols
    ELSE AddColumns(AddColumn(cols, Head(todo)), Tail(todo))

init_db_columns(cols) ==
    AddColumns(IF cols = <<>> THEN FreshColumns ELSE cols, AddedColumns)

Null == <<"<NULL>">>   \* the value of an added column in the rows there were

\* the rows after init_db: a row keeps its values and has NULL in each
\* column ALTER TABLE added
init_db_rows(rs, cols) ==
    [id \in DOMAIN rs |->
        [c \in {cols[i] : i \in 1..Len(cols)} \ {"id"} |->
            IF c \in DOMAIN rs[id] THEN rs[id][c] ELSE Null]]

-----------------------------------------------------------------------------
(* What the user can type *)

Row(d, q, p) == <<d, q, p>>

NumberInputs == {<<" ">>, <<"N", "1">>, <<" ", "N", "1", " ">>, <<"N", "2">>}

Today == <<"2025-06-01">>                     \* datetime.date.today()
Now == <<"2025-06-01", " ", "10:00:00">>      \* datetime.datetime.now()

FormFields(name, addr, cnum, desc, table, tax, email, cn, ca, cc, date) ==
    [client_name |-> name, client_address |-> addr, client_number |-> cnum,
     description |-> desc, table |-> table, tax |-> tax, email |-> email,
     company_name |-> cn, company_address |-> ca, company_contact |-> cc,
     date |-> date]

FormA ==
    FormFields(<<" ", "X">>, <<"C">>, <<"[", "]">>, <<"D", " ">>,
               <<Row(<<"L">>, <<"2">>, <<"3">>), Row(<<"M">>, <<"1">>, <<"5">>)>>,
               <<"1", "0">>, <<"E">>, <<"F">>, <<"G">>, <<"H">>, <<>>)

FormB ==
    FormFields(<<"Y">>, <<>>, <<>>, <<"W">>,
               <<Row(<<"L">>, <<"-", "1">>, <<"3">>),
                 Row(<<"Q">>, <<"x">>, <<"3">>),
                 Row(<<"R">>, <<"2">>, <<"x">>)>>,
               <<"x">>, <<>>, <<"K">>, <<"G">>, <<"M">>, <<"2025-01-02">>)

\* the same forms with a required field blank or no usable item row
FormNoName == [FormA EXCEPT !.client_name = <<" ">>]
FormNoDesc == [FormB EXCEPT !.description = <<>>]
FormNoItems ==
    [FormA EXCEPT !.table = <<Row(<<"L">>, <<"x">>, <<"1">>),
                              Row(NoCell, NoCell, NoCell),
                              Row(<<"L">>, <<"2">>, <<>>)>>]

Forms == {FormA, FormB, FormNoName, FormNoDesc, FormNoItems}

-----------------------------------------------------------------------------
(* InvoiceForm.save_invoice *)

\* the values save_invoice binds before it touches the store; t is what
\* calculate_totals returned
SaveValues(number_text, f, t) ==
    [invoice_number |-> Strip(number_text),
     client_name |-> Strip(f.client_name),
     client_address |-> Strip(f.client_address),
     client_number |-> Strip(f.client_number),
     description |-> Strip(f.description),
     items |-> t.items,
     items_str |-> ItemsStr(t.items),
     subtotal |-> t.subtotal, tax |-> t.tax, total |-> t.total,
     email |-> Strip(f.email),
     company_name |-> Strip(f.company_name),
     company_address |-> Strip(f.company_address),
     company_contact |-> Strip(f.company_contact),
     date |-> IF Strip(f.date) = <<>> THEN Today ELSE Strip(f.date)]

\* the description left out of the check
MissingInfo_two(v) == v.invoice_number = <<>> \/ v.client_name = <<>>

\* not all([number, name, desc])
MissingInfo(v) ==
    v.invoice_number = <<>> \/ v.client_name = <<>> \/ v.description = <<>>

\* the item list never looked at
MissingItems_never(v) == FALSE

\* not items
MissingItems(v) == v.items = <<>>

\* the column declared without UNIQUE
UniqueViolation_none(rs, number) == FALSE

\* invoice_number TEXT UNIQUE: the INSERT raises sqlite3.IntegrityError
UniqueViolation(rs, number) ==
    \E id \in DOMAIN rs : rs[id].invoice_number = number

\* the key declared without AUTOINCREMENT: one more than the largest id stored
NextId_rowid(rs, s) ==
    IF DOMAIN rs = {} THEN 1
    ELSE (CHOOSE m \in DOMAIN rs : \A i \in DOMAIN rs : i <= m) + 1

\* id INTEGER PRIMARY KEY AUTOINCREMENT: one more than the largest id ever
NextId(rs, s) == s + 1

\* the row of the INSERT statement
InsertedRow(v) ==
    [invoice_number |-> v.invoice_number, client_name |-> v.client_name,
     client_address |-> v.client_address, client_number |-> v.client_number,
     description |-> v.description, items |-> v.items_str,
     subtotal |-> v.subtotal, tax |-> v.tax, total |-> v.total,
     email |-> v.email, company_name |-> v.company_name,
     company_address |-> v.company_address,
     company_contact |-> v.company_contact,
     date_added |-> Now, date |-> v.date]

\* the SET list without tax
UpdatedRow_stale_tax(old, v) ==
    [old EXCEPT !.client_name = v.client_name,
                !.client_address = v.client_address,
                !.client_number = v.client_number,
                !.description = v.description,
                !.items = v.items_str,
                !.subtotal = v.subtotal, !.total = v.total,
                !.email = v.email,
                !.company_name = v.company_name,
                !.company_address = v.company_address,
                !.company_contact = v.company_contact,
                !.date_added = v.date]

\* the SET list of the UPDATE statement applied to one row
UpdatedRow(old, v) ==
    [old EXCEPT !.client_name = v.client_name,
                !.client_address = v.client_address,
                !.client_number = v.client_number,
                !.description = v.description,
                !.items = v.items_str,
                !.subtotal = v.subtotal, !.tax = v.tax, !.total = v.total,
                !.email = v.email,
                !.company_name = v.company_name,
                !.company_address = v.company_address,
                !.company_contact = v.company_contact,
                !.date_added = v.date]

\* the UPDATE without its WHERE clause
Matches_all(rs, number) == DOMAIN rs

\* WHERE invoice_number = ?
Matches(rs, number) == {id \in DOMAIN rs : rs[id].invoice_number = number}

\* generate_pdf writes OUTPUT_DIR/invoice_<number>.pdf
PdfName(number) == <<"invoice_">> \o number \o <<".pdf">>

\* f"{x:.2f}" of an amount held in hundredths: 6.00, -3.00, nan, inf
Money2f(c) ==
    IF c = NaN THEN <<"nan">>
    ELSE IF c = Inf THEN <<"inf">>
    ELSE IF c = NegInf THEN <<"-", "inf">>
    ELSE LET a == IF c < 0 THEN 0 - c ELSE c
         IN  (IF c < 0 THEN <<"-">> ELSE <<>>)
                 \o Digits(a \div Cents)
                 \o <<".", DigitChars[((a % Cents) \div 10) + 1],
                      DigitChars[(a % 10) + 1]>>

\* one table row of a PDF: str(item), str(qty), price and qty * price as .2f
PdfRow(it) ==
    <<it[1], FloatRepr(it[2]), Money2f(FMul(Cents, it[3])),
      Money2f(FMul(Cents, FMul(it[2], it[3])))>>

\* the item rows and the three totals lines generate_pdf and print_invoice
\* write
PdfDocument(items, subtotal, tax, total) ==
    [rows |-> [i \in 1..Len(items) |-> PdfRow(items[i])],
     subtotal |-> Money2f(subtotal), tax |-> Money2f(tax),
     total |-> Money2f(total)]

UpperChars ==
    <<"A", "B", "C", "D", "E", "F", "G", "H", "I", "J", "K", "L", "M",
      "N", "O", "P", "Q", "R", "S", "T", "U", "V", "W", "X", "Y", "Z">>

LowerChars ==
    <<"a", "b", "c", "d", "e", "f", "g", "h", "i", "j", "k", "l", "m",
      "n", "o", "p", "q", "r", "s", "t", "u", "v", "w", "x", "y", "z">>

LowerChar(c) ==
    IF \E i \in 1..Len(UpperChars) : UpperChars[i] = c
    THEN LowerChars[CHOOSE i \in 1..Len(UpperChars) : UpperChars[i] = c]
    ELSE c

\* str.lower() and SQL LOWER()
LowerText(s) == [i \in 1..Len(s) |-> LowerChar(s[i])]

\* text LIKE pattern: % stands for any run of characters, _ for any one
\* character, a letter for itself in either case
RECURSIVE Like(_, _)
Like(pattern, text) ==
    IF pattern = <<>> THEN text = <<>>
    ELSE IF Head(pattern) = "%"
    THEN \E k \in 0..Len(text) :
             Like(Tail(pattern), SubSeq(text, k + 1, Len(text)))
    ELSE /\ text # <<>>
         /\ Head(pattern) = "_" \/ LowerChar(Head(pattern)) = LowerChar(Head(text))
         /\ Like(Tail(pattern), Tail(text))

\* ORDER BY id DESC
RECURSIVE OrderByIdDesc(_)
OrderByIdDesc(ids) ==
    IF ids = {} THEN <<>>
    ELSE LET m == CHOOSE n \in ids : \A i \in ids : i <= n
         IN  <<m>> \o OrderByIdDesc(ids \ {m})

\* the ids load_data puts in the dashboard table for the search box text
load_data(rs, text) ==
    LET filter_text == LowerText(Strip(text))
        like == <<"%">> \o filter_text \o <<"%">>
    IN  OrderByIdDesc(
            IF filter_text = <<>> THEN DOMAIN rs
            ELSE {id \in DOMAIN rs :
                    \/ Like(like, LowerText(rs[id].invoice_number))
                    \/ Like(like, LowerText(rs[id].client_name))})

\* the dashboard before DashboardWidget.__init__
NotListed == [filter |-> <<>>, ids |-> <<>>]

Booted == last.op # "start"

Done(op, id, num, outcome) ==
    [op |-> op, id |-> id, num |-> num, outcome |-> outcome]

\* __main__: init_db() at every start of the program
InitDb ==
    /\ ~form.open
    /\ columns' = init_db_columns(columns)
    /\ rows' = init_db_rows(rows, init_db_columns(columns))
    /\ listed' = [filter |-> <<>>, ids |-> load_data(rows', <<>>)]
    /\ last' = Done("init_db", 0, <<>>, "ok")
    /\ UNCHANGED <<seq, files, form, deleted, rate, calc, writers>>

\* save_invoice of a new-invoice form (edit_mode = False)
Create(number_text, f) ==
    \E t \in {calculate_totals(f.table, f.tax)} :
    \E v \in {SaveValues(number_text, f, t)} :
    \E id \in {NextId(rows, seq)} :
        /\ Booted
        /\ IF MissingInfo(v)
           THEN /\ last' = Done("create", 0, v.invoice_number, "Missing Info")
                /\ UNCHANGED <<rows, seq, files, rate, listed>>
           ELSE IF MissingItems(v)
           THEN /\ last' = Done("create", 0, v.invoice_number, "Missing Items")
                /\ UNCHANGED <<rows, seq, files, rate, listed>>
           ELSE IF UniqueViolation(rows, v.invoice_number)
           THEN /\ last' = Done("create", 0, v.invoice_number, "Duplicate")
                /\ UNCHANGED <<rows, seq, files, rate, listed>>
           ELSE /\ seq < MaxId
                /\ rows' = (id :> InsertedRow(v)) @@ rows
                /\ rate' = (id :> TaxRate(f.tax)) @@ rate
                /\ seq' = IF id > seq THEN id ELSE seq
                /\ files' = (PdfName(v.invoice_number)
                               :> PdfDocument(v.items, v.subtotal, v.tax,
                                              v.total)) @@ files
                /\ listed' = [listed EXCEPT
                                !.ids = load_data(rows', listed.filter)]
                /\ last' = Done("create", id, v.invoice_number, "Saved")
        /\ UNCHANGED <<columns, form, deleted, calc, writers>>

-----------------------------------------------------------------------------
(* DashboardWidget: reading a record, opening the edit form, deleting *)

\* cursor.fetchone() of SELECT * FROM invoices WHERE id = ?
SelectStar(id) ==
    [i \in 1..Len(columns) |->
        IF columns[i] = "id" THEN id ELSE rows[id][columns[i]]]

\* the dictionary open_invoice_details and edit_invoice build from the row
invoice_data(id) ==
    LET data == SelectStar(id)
    IN  [id |-> data[1], invoice_number |-> data[2], client_name |-> data[3],
         description |-> data[4], items |-> data[5], subtotal |-> data[6],
         tax |-> data[7], total |-> data[8], email |-> data[9],
         company_name |-> data[10], company_address |-> data[11],
         company_contact |-> data[12]]

\* InvoiceForm.__init__ with this prefill returns: every QLineEdit/QTextEdit
\* gets a str and eval(prefill["items"]) yields (desc, qty, price) rows
FormOpens(id) ==
    /\ \A k \in {2, 3, 4, 5, 9, 10, 11, 12} : columns[k] \in TextColumns
    /\ \E r \in {Eval(SelectStar(id)[5])} : r.ok

\* InvoiceViewer.__init__ with this invoice_data returns: eval of the items
\* yields rows and subtotal, tax, total take the format :.2f (a nan bound to
\* a REAL column is stored as NULL and read as None, which does not)
ViewerOpens(id) ==
    /\ columns[5] \in TextColumns
    /\ \A k \in {6, 7, 8} :
          columns[k] \in RealColumns /\ SelectStar(id)[k] # NaN
    /\ \E r \in {Eval(SelectStar(id)[5])} : r.ok

Without(f, id) == [i \in DOMAIN f \ {id} |-> f[i]]

\* what open_invoice_details(id) ends in
GetOutcome(id) ==
    IF id \notin DOMAIN rows THEN "Not Found"
    ELSE IF ViewerOpens(id) THEN "Viewer" ELSE "Exception"

\* DashboardWidget.open_invoice_details
Get(id) ==
    /\ Booted
    /\ last' = Done("get", id, <<>>, GetOutcome(id))
    /\ UNCHANGED <<columns, rows, seq, files, form, deleted, rate, calc,
                   listed, writers>>

\* one <tr> of the preview: desc, qty, price and qty * price as .2f
PreviewRow(it) ==
    <<it[1], FloatRepr(it[2]), Money2f(FMul(Cents, it[3])),
      Money2f(FMul(Cents, FMul(it[2], it[3])))>>

\* the item rows and the three totals rows of the viewer's HTML preview
Preview(id) ==
    LET d == invoice_data(id)
        items == Eval(d.items).val
    IN  [rows |-> [i \in 1..Len(items) |-> PreviewRow(items[i])],
         subtotal |-> Money2f(d.subtotal), tax |-> Money2f(d.tax),
         total |-> Money2f(d.total)]

\* print_invoice writes OUTPUT_DIR/invoice_<number>_preview.pdf
PreviewName(number) == <<"invoice_">> \o number \o <<"_preview", ".pdf">>

\* InvoiceViewer.print_invoice: the Print / Export PDF button of the viewer
\* open_invoice_details(id) has opened
print_invoice(id) ==
    /\ Booted
    /\ GetOutcome(id) = "Viewer"
    /\ \E d \in {invoice_data(id)} :
         /\ files' = (PreviewName(d.invoice_number)
                        :> PdfDocument(Eval(d.items).val, d.subtotal, d.tax,
                                       d.total)) @@ files
         /\ last' = Done("print", id, d.invoice_number, "Exported")
    /\ UNCHANGED <<columns, rows, seq, form, deleted, rate, calc, listed,
                   writers>>

\* DashboardWidget.edit_invoice up to form.exec()
OpenEdit(id) ==
    /\ Booted
    /\ ~form.open
    /\ IF id \notin DOMAIN rows
       THEN /\ last' = Done("edit", id, <<>>, "Not Found")
            /\ UNCHANGED form
       ELSE IF FormOpens(id)
       THEN /\ form' = [open |-> TRUE,
                        invoice_number |-> invoice_data(id).invoice_number]
            /\ last' = Done("edit", id, <<>>, "Form")
       ELSE /\ last' = Done("edit", id, <<>>, "Exception")
            /\ UNCHANGED form
    /\ UNCHANGED <<columns, rows, seq, files, deleted, rate, calc, listed,
                   writers>>

\* the Cancel button of the edit form
CancelEdit ==
    /\ form.open
    /\ form' = [open |-> FALSE, invoice_number |-> <<>>]
    /\ last' = Done("cancel", 0, <<>>, "ok")
    /\ UNCHANGED <<columns, rows, seq, files, deleted, rate, calc, listed,
                   writers>>

\* save_invoice of the edit form (edit_mode = True)
SaveEdit(f) ==
    \E t \in {calculate_totals(f.table, f.tax)} :
    \E v \in {SaveValues(form.invoice_number, f, t)} :
    \E hit \in {Matches(rows, v.invoice_number)} :
        /\ form.open
        /\ IF MissingInfo(v)
           THEN /\ last' = Done("update", 0, v.invoice_number, "Missing Info")
                /\ UNCHANGED <<rows, files, rate, form, listed>>
           ELSE IF MissingItems(v)
           THEN /\ last' = Done("update", 0, v.invoice_number, "Missing Items")
                /\ UNCHANGED <<rows, files, rate, form, listed>>
           ELSE /\ rows' = [id \in DOMAIN rows |->
                              IF id \in hit THEN UpdatedRow(rows[id], v)
                              ELSE rows[id]]
                /\ rate' = [id \in DOMAIN rate |->
                              IF id \in hit THEN TaxRate(f.tax) ELSE rate[id]]
                /\ files' = (PdfName(v.invoice_number)
                               :> PdfDocument(v.items, v.subtotal, v.tax,
                                              v.total)) @@ files
                /\ form' = [open |-> FALSE, invoice_number |-> <<>>]
                /\ listed' = [listed EXCEPT
                                !.ids = load_data(rows', listed.filter)]
                /\ last' = Done("update",
                                IF hit = {} THEN 0 ELSE CHOOSE id \in hit : TRUE,
                                v.invoice_number, "Updated")
        /\ UNCHANGED <<columns, seq, deleted, calc, writers>>

\* DashboardWidget.delete_invoice
Delete(id, reply) ==
    /\ Booted
    /\ IF reply = "Yes"
       THEN /\ rows' = Without(rows, id)
            /\ rate' = Without(rate, id)
            /\ deleted' = IF id \in DOMAIN rows THEN deleted \cup {id}
                          ELSE deleted
            /\ listed' = [listed EXCEPT
                            !.ids = load_data(rows', listed.filter)]
            /\ last' = Done("delete", id, <<>>, "Deleted")
       ELSE /\ last' = Done("delete", id, <<>>, "No")
            /\ UNCHANGED <<rows, rate, deleted, listed>>
    /\ UNCHANGED <<columns, seq, files, form, calc, writers>>

\* DashboardWidget.load_data: the Search and Refresh buttons
Search(text) ==
    /\ Booted
    /\ listed' = [filter |-> text, ids |-> load_data(rows, text)]
    /\ last' = Done("list", 0, text, "ok")
    /\ UNCHANGED <<columns, rows, seq, files, form, deleted, rate, calc,
                   writers>>

-----------------------------------------------------------------------------
(* Two program instances on one database file.  Each runs save_invoice of *)
(* a new invoice; the steps are the points where the other instance can   *)
(* act: before the INSERT statement, between the INSERT and the commit    *)
(* (the database file is write-locked by the inserting connection), and   *)
(* between the commit and generate_pdf.                                   *)

Writers == {"A", "B"}

\* an instance whose form has not pressed Save
Idle ==
    [pc |-> "idle", number |-> <<>>, row |-> <<>>, doc |-> <<>>, rate |-> 0,
     id |-> 0, raced |-> FALSE, outcome |-> ""]

NoWriters == [w \in Writers |-> Idle]

\* the invoice number of the create instance w has in progress or finished
NumberOf(w) == writers[w].number

\* instance u pressed Save on the same number and has not committed yet
InFlight(u, number) ==
    /\ writers[u].pc \in {"execute", "commit"}
    /\ NumberOf(u) = number

\* instance u's create of this number is in flight while the number is free
Races(u, number) ==
    InFlight(u, number) /\ ~UniqueViolation(rows, number)

\* the other program instance
Other(w) == CHOOSE u \in Writers : u # w

Locked_never(w) == FALSE

\* sqlite3: another connection holds the write lock of the database file,
\* from its INSERT statement until its commit
Locked(w) == \E u \in Writers \ {w} : writers[u].pc = "commit"

\* save_invoice of a new invoice up to the try block: the fields are read
\* and validated, the totals computed; the instance holds the values it
\* will bind to the INSERT (row) and pass to generate_pdf (doc)
Begin(w, number_text, f) ==
    \E t \in {calculate_totals(f.table, f.tax)} :
    \E v \in {SaveValues(number_text, f, t)} :
        /\ Booted
        /\ writers[w].pc = "idle"
        /\ IF MissingInfo(v)
           THEN /\ writers' = [writers EXCEPT ![w] =
                                   [Idle EXCEPT !.outcome = "Missing Info"]]
                /\ last' = Done("create", 0, v.invoice_number, "Missing Info")
           ELSE IF MissingItems(v)
           THEN /\ writers' = [writers EXCEPT ![w] =
                                   [Idle EXCEPT !.outcome = "Missing Items"]]
                /\ last' = Done("create", 0, v.invoice_number, "Missing Items")
           ELSE /\ writers' =
                      [writers EXCEPT
                          ![w] = [pc |-> "execute",
                                  number |-> v.invoice_number,
                                  row |-> InsertedRow(v),
                                  doc |-> PdfDocument(v.items, v.subtotal,
                                                      v.tax, v.total),
                                  rate |-> TaxRate(f.tax), id |-> 0,
                                  raced |-> Races(Other(w), v.invoice_number),
                                  outcome |-> ""],
                          ![Other(w)].raced =
                              @ \/ Races(Other(w), v.invoice_number)]
                /\ UNCHANGED last
        /\ UNCHANGED <<columns, rows, seq, files, form, deleted, rate, calc,
                       listed>>

\* cursor.execute(INSERT ...): the statement takes the write lock, the
\* UNIQUE index on invoice_number is checked against the committed rows and
\* the row gets its AUTOINCREMENT id; sqlite3.IntegrityError leaves the with
\* block (rollback) and is caught: the Duplicate warning
Execute(w) ==
    /\ writers[w].pc = "execute"
    /\ ~Locked(w)
    /\ IF UniqueViolation(rows, NumberOf(w))
       THEN /\ writers' = [writers EXCEPT ![w].pc = "idle",
                                          ![w].outcome = "Duplicate"]
            /\ last' = Done("create", 0, NumberOf(w), "Duplicate")
       ELSE /\ seq < MaxId
            /\ writers' = [writers EXCEPT ![w].pc = "commit",
                                          ![w].id = NextId(rows, seq)]
            /\ UNCHANGED last
    /\ UNCHANGED <<columns, rows, seq, files, form, deleted, rate, calc,
                   listed>>

\* cursor.execute(INSERT ...) while the other connection holds the write
\* lock longer than the connection's timeout: sqlite3.OperationalError
\* (database is locked), which save_invoice does not catch
Busy(w) ==
    /\ writers[w].pc = "execute"
    /\ Locked(w)
    /\ writers' = [writers EXCEPT ![w].pc = "idle",
                                  ![w].outcome = "Exception"]
    /\ last' = Done("create", 0, NumberOf(w), "Exception")
    /\ UNCHANGED <<columns, rows, seq, files, form, deleted, rate, calc,
                   listed>>

\* conn.commit(): the inserted row becomes visible to every connection and
\* the write lock is released
Commit(w) ==
    /\ writers[w].pc = "commit"
    /\ rows' = (writers[w].id :> writers[w].row) @@ rows
    /\ rate' = (writers[w].id :> writers[w].rate) @@ rate
    /\ seq' = IF writers[w].id > seq THEN writers[w].id ELSE seq
    /\ writers' = [writers EXCEPT ![w].pc = "pdf"]
    /\ UNCHANGED <<columns, files, form, last, deleted, calc, listed>>

\* generate_pdf, the Saved message, accept(), and the dashboard's load_data
WritePdf(w) ==
    /\ writers[w].pc = "pdf"
    /\ files' = (PdfName(NumberOf(w)) :> writers[w].doc) @@ files
    /\ last' = Done("create", writers[w].id, NumberOf(w), "Saved")
    /\ listed' = [listed EXCEPT !.ids = load_data(rows, listed.filter)]
    /\ writers' = [writers EXCEPT ![w].pc = "idle", ![w].outcome = "Saved"]
    /\ UNCHANGED <<columns, rows, seq, form, deleted, rate, calc>>

-----------------------------------------------------------------------------
(* The program *)

\* no eval yet
NotRead == [done |-> FALSE, ok |-> FALSE, val |-> <<>>]

NoCalc ==
    [table |-> <<>>, tax |-> <<>>, result |-> calculate_totals(<<>>, <<>>),
     shown |-> FALSE, text |-> <<>>, back |-> NotRead]

\* the columns an older version's table can lack
LegacyMissing ==
    {{"date_added", "date", "client_address", "client_number"},
     {"date_added", "date"}}

Init ==
    /\ columns \in {<<>>} \cup {LegacyColumns(m) : m \in LegacyMissing}
    /\ rows = <<>>
    /\ seq = 0
    /\ files = <<>>
    /\ form = [open |-> FALSE, invoice_number |-> <<>>]
    /\ last = Done("start", 0, <<>>, "")
    /\ deleted = {}
    /\ rate = <<>>
    /\ calc = NoCalc
    /\ listed = NotListed
    /\ writers = NoWriters

Next ==
    \/ InitDb
    \/ \E n \in NumberInputs, f \in Forms : Create(n, f)
    \/ \E id \in 1..seq : Get(id)
    \/ \E id \in 1..seq : OpenEdit(id)
    \/ CancelEdit
    \/ \E f \in Forms : SaveEdit(f)
    \/ \E id \in 1..seq, reply \in {"Yes", "No"} : Delete(id, reply)

Spec == Init /\ [][Next]_vars

-----------------------------------------------------------------------------
(* The totals calculator on its own: InvoiceForm.update_total *)

RowInputs ==
    {Row(d, q, p) : d \in {<<"L">>, NoCell},
                    q \in {<<"2">>, <<" ", "1", "0">>, <<"x">>, NoCell},
                    p \in {<<"3">>, <<"x">>, <<>>, NoCell}}

TaxInputs == {<<>>, <<"1", "0">>, <<"x">>}

Tables == UNION {[1..k -> RowInputs] : k \in 0..MaxTableRows}

\* the handler of tax_input.textChanged: the totals of the table as typed
update_total ==
    /\ ~calc.shown
    /\ calc' = [calc EXCEPT !.result = calculate_totals(calc.table, calc.tax),
                            !.shown = TRUE]
    /\ UNCHANGED <<columns, rows, seq, files, form, last, deleted, rate,
                   listed, writers>>

CalcInit ==
    /\ columns = <<>>
    /\ rows = <<>>
    /\ seq = 0
    /\ files = <<>>
    /\ form = [open |-> FALSE, invoice_number |-> <<>>]
    /\ last = Done("start", 0, <<>>, "")
    /\ deleted = {}
    /\ rate = <<>>
    /\ calc \in [table : Tables, tax : TaxInputs, result : {NoCalc.result},
                 shown : {FALSE}, text : {<<>>}, back : {NotRead}]
    /\ listed = NotListed
    /\ writers = NoWriters

CalcNext == update_total

SpecCalc == CalcInit /\ [][CalcNext]_vars

-----------------------------------------------------------------------------
(* init_db on the tables it can meet at a start of the program *)

SampleForm(id) == IF id = 1 THEN FormA ELSE FormB

\* the record a save of SampleForm(id) under the number N<id> stored
SampleRecord(id) ==
    InsertedRow(SaveValues(<<"N">> \o Digits(id), SampleForm(id),
                           calculate_totals(SampleForm(id).table,
                                            SampleForm(id).tax)))

\* that record in a table with the columns cols
OldRow(id, cols) ==
    [c \in {cols[i] : i \in 1..Len(cols)} \ {"id"} |-> SampleRecord(id)[c]]

\* no table, or a table without any subset of the added columns (the
\* current table when the subset is empty), holding any rows
MigrateInit ==
    /\ \/ columns = <<>> /\ rows = <<>> /\ seq = 0
       \/ \E m \in SUBSET {AddedColumns[i] : i \in 1..Len(AddedColumns)} :
          \E ids \in SUBSET (1..MaxId) :
             /\ columns = LegacyColumns(m)
             /\ rows = [id \in ids |-> OldRow(id, columns)]
             /\ seq = IF ids = {} THEN 0
                      ELSE CHOOSE n \in ids : \A i \in ids : i <= n
    /\ files = <<>>
    /\ form = [open |-> FALSE, invoice_number |-> <<>>]
    /\ last = Done("start", 0, <<>>, "")
    /\ deleted = {}
    /\ rate = [id \in DOMAIN rows |-> TaxRate(SampleForm(id).tax)]
    /\ calc = NoCalc
    /\ listed = NotListed
    /\ writers = NoWriters

MigrateNext == InitDb

SpecMigrate == MigrateInit /\ [][MigrateNext]_vars

-----------------------------------------------------------------------------
(* The dashboard's search *)

ListNumbers == {<<"N", "1">>, <<"n", "_", "2">>}

ListForms == {FormA, FormB}

\* what the user can type in the search box
Filters ==
    {<<>>, <<" ">>, <<"n">>, <<" ", "X", " ">>, <<"1", "N">>, <<"_">>,
     <<"%">>, <<"n", "%", "2">>}

ListNext ==
    \/ InitDb
    \/ \E n \in ListNumbers, f \in ListForms : Create(n, f)
    \/ \E text \in Filters : Search(text)
    \/ \E id \in 1..seq, reply \in {"Yes", "No"} : Delete(id, reply)

SpecList == Init /\ [][ListNext]_vars

-----------------------------------------------------------------------------
(* The readers of a record: preview, export from the preview, edit form *)

\* a second invoice number that ends in the suffix of the preview export
ReadNumbers == {<<"N", "1">>, <<"N", "1", "_preview">>}

\* a price of inf, which float() takes
FormInf ==
    [FormA EXCEPT !.table = <<Row(<<"L">>, <<"2">>, <<"inf">>)>>,
                  !.tax = <<>>]

ReadForms == {FormA, FormB, FormInf}

ReadNext ==
    \/ InitDb
    \/ \E n \in ReadNumbers, f \in ReadForms : Create(n, f)
    \/ \E id \in 1..seq : Get(id)
    \/ \E id \in 1..seq : print_invoice(id)
    \/ \E id \in 1..seq : OpenEdit(id)
    \/ CancelEdit
    \/ \E f \in ReadForms : SaveEdit(f)

SpecRead == Init /\ [][ReadNext]_vars

-----------------------------------------------------------------------------
(* The items of a form written as text and read back: str(items), eval *)

\* cells as typed, among them the words float() takes for nan and inf
ItemRowInputs ==
    {Row(d, q, p) : d \in {<<"L">>, <<"a", " ", "b">>},
                    q \in {<<"2">>, <<"-", "1">>, <<"nan">>, <<"x">>},
                    p \in {<<" ", "3">>, <<"inf">>, <<"-", "infinity">>,
                           <<"1", "0">>}}

ItemTables == UNION {[1..k -> ItemRowInputs] : k \in 0..MaxTableRows}

\* save_invoice from calculate_totals to items_str = str(items)
save_items ==
    /\ calc.text = <<>>
    /\ \E t \in {calculate_totals(calc.table, calc.tax)} :
         /\ t.items # <<>>
         /\ calc' = [calc EXCEPT !.result = t, !.text = ItemsStr(t.items)]
    /\ UNCHANGED <<columns, rows, seq, files, form, last, deleted, rate,
                   listed, writers>>

\* InvoiceForm.__init__: items = eval(self.prefill["items"])
load_items ==
    /\ calc.text # <<>>
    /\ ~calc.back.done
    /\ \E e \in {Eval(calc.text)} :
         calc' = [calc EXCEPT !.back = [done |-> TRUE, ok |-> e.ok,
                                       val |-> e.val]]
    /\ UNCHANGED <<columns, rows, seq, files, form, last, deleted, rate,
                   listed, writers>>

ItemsInit ==
    /\ columns = <<>>
    /\ rows = <<>>
    /\ seq = 0
    /\ files = <<>>
    /\ form = [open |-> FALSE, invoice_number |-> <<>>]
    /\ last = Done("start", 0, <<>>, "")
    /\ deleted = {}
    /\ rate = <<>>
    /\ calc \in [table : ItemTables, tax : TaxInputs, result : {NoCalc.result},
                 shown : {FALSE}, text : {<<>>}, back : {NotRead}]
    /\ listed = NotListed
    /\ writers = NoWriters

ItemsNext == save_items \/ load_items

SpecItems == ItemsInit /\ [][ItemsNext]_vars

\* two program instances creating invoices on one database file
WriterForms == {FormA, FormB, FormNoItems}

WritersNext ==
    \/ InitDb
    \/ \E w \in Writers, n \in NumberInputs, f \in WriterForms : Begin(w, n, f)
    \/ \E w \in Writers : Execute(w)
    \/ \E w \in Writers : Busy(w)
    \/ \E w \in Writers : Commit(w)
    \/ \E w \in Writers : WritePdf(w)

SpecWriters == Init /\ [][WritersNext]_vars

-----------------------------------------------------------------------------
(* Properties *)

Rejected(o) == o \in {"Missing Info", "Missing Items"}

StoredIds == DOMAIN rows

RECURSIVE SumAmounts(_)
SumAmounts(items) ==
    IF items = <<>> THEN 0
    ELSE items[1][2] * items[1][3] + SumAmounts(Tail(items))

\* C1: no two stored invoice records have the same invoice_number.
C1_UniqueNumbers ==
    \A a \in StoredIds : \A b \in StoredIds :
        a # b => rows[a].invoice_number # rows[b].invoice_number

\* two records are stored and one of them has just been updated
C1_Witness ==
    /\ Cardinality(StoredIds) = 2
    /\ last.op = "update" /\ last.outcome = "Updated" /\ last.id \in StoredIds

\* C2: a create that passes validation and whose trimmed invoice_number is
\* already stored ends in "Duplicate" and leaves the rows, the id sequence
\* and the output files as they were.
C2_DuplicateRejected ==
    [][(/\ last'.op = "create"
        /\ ~Rejected(last'.outcome)
        /\ \E id \in StoredIds : rows[id].invoice_number = last'.num)
       => (/\ last'.outcome = "Duplicate"
           /\ rows' = rows /\ seq' = seq /\ files' = files)]_vars

\* a create was refused as a duplicate of a stored record
C2_Witness ==
    /\ last.op = "create" /\ last.outcome = "Duplicate"
    /\ Cardinality({id \in StoredIds : rows[id].invoice_number = last.num}) = 1

\* C3: an update leaves invoice_number and date_added of the record as they
\* were and stores subtotal, tax and total re-derived from the items.
C3_UpdateKeepsKeyAndDateAdded ==
    [][(last'.op = "update" /\ last'.outcome = "Updated")
       => \A id \in StoredIds \cap DOMAIN rows' :
            /\ rows'[id].invoice_number = rows[id].invoice_number
            /\ rows'[id].date_added = rows[id].date_added
            /\ id = last'.id =>
                 /\ rows'[id].subtotal
                      = Cents * SumAmounts(Eval(rows'[id].items).val)
                 /\ rows'[id].total = rows'[id].subtotal + rows'[id].tax]_vars

\* C4: an update whose invoice_number matches no stored record ends in
\* "Not Found" and leaves the store unchanged.
C4_UpdateOfMissingIsNotFound ==
    [][(/\ last'.op = "update"
        /\ ~Rejected(last'.outcome)
        /\ \A id \in StoredIds : rows[id].invoice_number # last'.num)
       => (last'.outcome = "Not Found" /\ rows' = rows)]_vars

\* C5: once a DELETE removed the record with an id, open_invoice_details of
\* that id ends in "Not Found", whatever was created, updated or deleted since.
C5_DeletedStaysNotFound ==
    \A id \in deleted : GetOutcome(id) = "Not Found"

\* a deleted id was looked up after a later create and was not found
C5_Witness ==
    /\ last.op = "get" /\ last.id \in deleted /\ last.outcome = "Not Found"
    /\ \E id \in StoredIds : id > last.id

\* C6: a delete of an id that is not stored ends in "Not Found", not in
\* "Deleted", and leaves the store unchanged.
C6_DeleteOfMissingIsNotFound ==
    [][(last'.op = "delete" /\ last'.outcome # "No" /\ last'.id \notin StoredIds)
       => (last'.outcome = "Not Found" /\ rows' = rows)]_vars

\* C7: for every stored record the dictionary built from SELECT * holds,
\* under each named field, the value stored for that field.
C7_GetReturnsStoredFields ==
    Booted =>
      \A id \in StoredIds :
        LET d == invoice_data(id)
            r == rows[id]
        IN  /\ d.invoice_number = r.invoice_number
            /\ d.client_name = r.client_name
            /\ d.description = r.description
            /\ d.items = r.items
            /\ d.subtotal = r.subtotal /\ d.tax = r.tax /\ d.total = r.total
            /\ d.email = r.email
            /\ d.company_name = r.company_name
            /\ d.company_address = r.company_address
            /\ d.company_contact = r.company_contact
            /\ {"client_address", "client_number", "date"} \subseteq DOMAIN d
            /\ d.client_address = r.client_address
            /\ d.client_number = r.client_number
            /\ d.date = r.date

\* C8: every stored record has subtotal = sum of quantity * unit_price over
\* its stored items, tax = subtotal * rate / 100 for the rate of its most
\* recent save, and total = subtotal + tax.
C8_TotalsConsistent ==
    \A id \in StoredIds :
        \E e \in {Eval(rows[id].items)} :
            /\ e.ok
            /\ rows[id].subtotal = Cents * SumAmounts(e.val)
            /\ rows[id].tax * Cents = rows[id].subtotal * rate[id]
            /\ rows[id].total = rows[id].subtotal + rows[id].tax

\* a record updated to two items at a non-zero rate, after a save at rate 0
C8_Witness ==
    /\ last.op = "update" /\ last.outcome = "Updated" /\ last.id \in StoredIds
    /\ rate[last.id] # 0
    /\ Len(Eval(rows[last.id].items).val) = 2
    /\ rows[last.id].tax # 0

KeptByClaim(row) ==
    /\ row[1] # NoCell /\ row[2] # NoCell /\ row[3] # NoCell
    /\ ParseFloat(row[2]).ok /\ ParseFloat(row[3]).ok

\* C9: calculate_totals returns, in table order, exactly the rows with three
\* cells whose quantity and price parse; every other row adds nothing to the
\* items or the subtotal; a result is always returned.
C9_FilteredRows ==
    calc.shown =>
      \E kept \in {SelectSeq(calc.table, KeptByClaim)} :
        /\ Len(calc.result.items) = Len(kept)
        /\ \A i \in 1..Len(kept) :
             calc.result.items[i]
               = <<kept[i][1], ParseFloat(kept[i][2]).val,
                   ParseFloat(kept[i][3]).val>>
        /\ calc.result.subtotal = Cents * SumAmounts(calc.result.items)
        /\ calc.result.total = calc.result.subtotal + calc.result.tax

\* a row whose quantity parses and whose price does not was dropped, and the
\* row after it was kept
C9_Witness ==
    /\ calc.shown
    /\ Len(calc.table) = 2
    /\ CellsPresent(calc.table[1])
    /\ ParseFloat(calc.table[1][2]).ok /\ ~ParseFloat(calc.table[1][3]).ok
    /\ Len(calc.result.items) = 1
    /\ calc.result.subtotal # 0

\* the save's input fails validation: a required field is empty after
\* trimming or no row of the table is a valid item
InvalidInput(number_text, f) ==
    \/ Strip(number_text) = <<>>
    \/ Strip(f.client_name) = <<>>
    \/ Strip(f.description) = <<>>
    \/ \A i \in 1..Len(f.table) : ~KeptByClaim(f.table[i])

NothingWritten ==
    /\ Rejected(last'.outcome)
    /\ rows' = rows /\ seq' = seq /\ files' = files

InvalidCreates ==
    {nf \in NumberInputs \X Forms : InvalidInput(nf[1], nf[2])}

InvalidForms == {f \in Forms : InvalidInput(<<"N">>, f)}

\* C10: a create or update whose input fails validation ends in a validation
\* failure and leaves the rows and the output files as they were: a save
\* step that did anything else was taken on no invalid input.
C10_InvalidSaveWritesNothing ==
    [][/\ (last'.op = "create" /\ ~NothingWritten)
            => \A nf \in InvalidCreates : ~Create(nf[1], nf[2])
       /\ (last'.op = "update" /\ ~NothingWritten)
            => \A f \in Forms :
                 (f \in InvalidForms \/ Strip(form.invoice_number) = <<>>)
                    => ~SaveEdit(f)]_vars

\* an update was refused for its items while records and files exist
C10_Witness ==
    /\ last.op = "update" /\ last.outcome = "Missing Items"
    /\ form.open /\ StoredIds # {} /\ DOMAIN files # {}

\* C11: the items text written by a save, read back with eval, gives a list
\* equal to the list calculate_totals returned.
C11_RoundTrip ==
    calc.back.done => calc.back.ok /\ calc.back.val = calc.result.items

\* C12: a reader (preview, edit prefill) handed a stored items text that
\* cannot be parsed ends in a SerializationFailure outcome, not an exception.
C12_UnparsableItemsRecoverable ==
    (/\ last.op \in {"get", "edit"}
     /\ last.id \in StoredIds
     /\ invoice_data(last.id).items = rows[last.id].items
     /\ ~Eval(rows[last.id].items).ok)
        => last.outcome = "SerializationFailure"

\* C13: a saved invoice read back with get shows a preview with the item
\* rows and totals of the document its save wrote, and an export from the
\* preview writes those rows and totals too.
C13_SameDocuments ==
    /\ (/\ last.op \in {"create", "update"}
        /\ last.outcome \in {"Saved", "Updated"}
        /\ last.id \in StoredIds)
           => /\ GetOutcome(last.id) = "Viewer"
              /\ Preview(last.id) = files[PdfName(last.num)]
    /\ last.op = "print"
           => files[PreviewName(last.num)] = Preview(last.id)

\* C14: for all stored invoice numbers a and b, the file a direct save of a
\* writes and the file an export from the preview of b writes have
\* different names.
C14_DistinctFileNames ==
    \A a \in StoredIds : \A b \in StoredIds :
        PdfName(rows[a].invoice_number) # PreviewName(rows[b].invoice_number)

RequiredColumns == {FreshColumns[i] : i \in 1..Len(FreshColumns)}

\* C15: init_db ends without error on no table, on the current table and on
\* a table without any of the four added columns; afterwards every required
\* column is there exactly once, the columns and rows there were keep their
\* place and values, and a second run changes neither columns nor rows.
C15_InitDbAdditive ==
    [][last'.op = "init_db" =>
         /\ last'.outcome = "ok"
         /\ \A c \in RequiredColumns :
               Cardinality({i \in 1..Len(columns') : columns'[i] = c}) = 1
         /\ SubSeq(columns', 1, Len(columns)) = columns
         /\ DOMAIN rows' = DOMAIN rows
         /\ \A id \in DOMAIN rows : \A c \in DOMAIN rows[id] :
               rows'[id][c] = rows[id][c]
         /\ init_db_columns(columns') = columns'
         /\ init_db_rows(rows', columns') = rows']_vars

\* init_db has run on a table with two rows that had client_address but
\* neither date nor client_number
C15_Witness ==
    /\ last.op = "init_db"
    /\ Cardinality(DOMAIN rows) = 2
    /\ \A id \in DOMAIN rows :
          /\ rows[id].date = Null /\ rows[id].client_number = Null
          /\ rows[id].client_address # Null /\ rows[id].date_added # Null

\* sub occurs in text, character for character
Contains(text, sub) ==
    \E k \in 0..(Len(text) - Len(sub)) :
        SubSeq(text, k + 1, k + Len(sub)) = sub

\* C16: after a search the dashboard lists, in strictly descending id order,
\* every stored record when the (trimmed) search text is empty, and
\* otherwise exactly the records whose invoice_number or client_name
\* contains the text as a literal substring, letter case aside.
C16_ListMatchesFilter ==
    last.op = "list" =>
      LET text == LowerText(Strip(listed.filter))
          ids == listed.ids
      IN  /\ \A i \in 1..(Len(ids) - 1) : ids[i] > ids[i + 1]
          /\ {ids[i] : i \in 1..Len(ids)}
               = IF text = <<>> THEN StoredIds
                 ELSE {id \in StoredIds :
                         \/ Contains(LowerText(rows[id].invoice_number), text)
                         \/ Contains(LowerText(rows[id].client_name), text)}

\* C17: after an update that reported success on a stored record, the
\* record's date is the date submitted in the form, and so are client_name,
\* client_address, client_number, description, items, email and the company
\* fields.
C17_UpdateWritesDate ==
    [][(/\ last'.op = "update" /\ last'.outcome = "Updated"
        /\ last'.id \in DOMAIN rows')
          => \A f \in Forms :
               SaveEdit(f) =>
                 \E v \in {SaveValues(form.invoice_number, f,
                                      calculate_totals(f.table, f.tax))} :
                 \E r \in {rows'[last'.id]} :
                    /\ r.date = v.date
                    /\ r.client_name = v.client_name
                    /\ r.client_address = v.client_address
                    /\ r.client_number = v.client_number
                    /\ r.description = v.description
                    /\ r.items = v.items_str
                    /\ r.email = v.email
                    /\ r.company_name = v.company_name
                    /\ r.company_address = v.company_address
                    /\ r.company_contact = v.company_contact]_vars

\* C18: every line item of every stored record has a quantity >= 0 and a
\* unit price >= 0.
C18_ItemsNonNegative ==
    \A id \in StoredIds :
        \E e \in {Eval(rows[id].items)} :
            /\ e.ok
            /\ \A i \in 1..Len(e.val) : e.val[i][2] >= 0 /\ e.val[i][3] >= 0

\* C19: every stored record has an invoice_number, a client_name and a
\* description that are not empty and neither begin nor end with
\* whitespace, and an item list of at least one row.
C19_RequiredFieldsPresent ==
    \A id \in StoredIds :
        /\ \A c \in {"invoice_number", "client_name", "description"} :
              rows[id][c] # <<>> /\ Strip(rows[id][c]) = rows[id][c]
        /\ \E e \in {Eval(rows[id].items)} : e.ok /\ Len(e.val) >= 1

\* after a delete, a record created from a number typed with blanks around
\* it has been updated from a form whose name was typed with a blank
C19_Witness ==
    /\ last.op = "update" /\ last.outcome = "Updated"
    /\ last.id \in StoredIds
    /\ deleted # {}
    /\ rows[last.id].client_name = <<"X">>
    /\ rows[last.id].invoice_number = <<"N", "1">>

\* the record is stored after the step as it was before it
Kept(id) == id \in DOMAIN rows' /\ rows'[id] = rows[id]

\* C20: a create leaves every record there was as it was; an update leaves
\* every record with another invoice number, and a delete every record with
\* another id, as it was, in every field.
C20_OthersUnchanged ==
    [][/\ last'.op = "create" => \A id \in DOMAIN rows : Kept(id)
       /\ last'.op = "update" =>
             \A id \in DOMAIN rows :
                 rows[id].invoice_number # last'.num => Kept(id)
       /\ last'.op = "delete" =>
             \A id \in DOMAIN rows : id # last'.id => Kept(id)]_vars

\* an invoice has been updated while another one, saved with a different
\* company profile, is stored
C20_Witness ==
    /\ last.op = "update" /\ last.outcome = "Updated"
    /\ last.id \in StoredIds
    /\ \E other \in StoredIds :
          /\ other # last.id
          /\ rows[other].company_name # rows[last.id].company_name
          /\ rows[other].company_contact # rows[last.id].company_contact

\* two instances pressed Save on the same free invoice number before either
\* committed, and both creates have ended
RacedPairs ==
    {p \in Writers \X Writers :
        /\ p[1] # p[2]
        /\ \A k \in 1..2 : /\ writers[p[k]].raced
                            /\ writers[p[k]].pc = "idle"
                            /\ writers[p[k]].outcome # ""
        /\ NumberOf(p[1]) = NumberOf(p[2])}

\* the ids of the stored records with this invoice number
StoredWith(number) == {id \in DOMAIN rows : rows[id].invoice_number = number}

\* C21 as stated: when two writers interleave two creates with the same
\* invoice_number, both creates succeed and the store ends up holding two
\* records with that invoice_number.
C21_BothCreatesStored ==
    \A p \in RacedPairs :
        /\ writers[p[1]].outcome = "Saved"
        /\ writers[p[2]].outcome = "Saved"
        /\ Cardinality(StoredWith(NumberOf(p[1]))) = 2

\* C21 amended: the uniqueness of invoice_number is checked by the INSERT
\* statement itself inside the store's write lock, so with two writers the
\* store never holds two records with one invoice_number, and of two
\* interleaved creates with the same invoice_number exactly one record is
\* stored, at most one create is Saved, and the other one ends in the
\* Duplicate warning or in the database-locked exception.
C21_OneCreateStored ==
    /\ \A w \in Writers :
           writers[w].number # <<>> =>
               Cardinality(StoredWith(NumberOf(w))) <= 1
    /\ \A w \in Writers :
           writers[w].pc = "pdf" \/ writers[w].outcome = "Saved" =>
               /\ writers[w].id \in StoredWith(NumberOf(w))
               /\ \A u \in Writers \ {w} :
                      (writers[u].number # <<>> /\ NumberOf(u) = NumberOf(w)) =>
                          /\ writers[u].pc # "pdf"
                          /\ writers[u].outcome # "Saved"
    /\ \A p \in RacedPairs :
           /\ Cardinality(StoredWith(NumberOf(p[1]))) = 1
           /\ \E k \in 1..2 : writers[p[k]].outcome = "Saved"
           /\ \E k \in 1..2 : writers[p[k]].outcome \in {"Duplicate", "Exception"}

C21_Witness ==
    \E p \in RacedPairs :
        /\ writers[p[1]].outcome = "Saved"
        /\ writers[p[2]].outcome = "Duplicate"
        /\ Cardinality(StoredWith(NumberOf(p[1]))) = 1

=============================================================================
